---- MODULE Spec2Model ----
(***************************************************************************)
(* Model of svinst_port (src/src/main.rs): the per-file driver run_opt,    *)
(* the definition extractor analyze_defs with its handlers, the error      *)
(* locator print_parse_error and the text escaper escape_str.              *)
(*                                                                         *)
(* Strings are sequences of byte values.  An Option<T> is a sequence of    *)
(* length at most one: <<>> is None and <<x>> is Some(x).                  *)
(***************************************************************************)
EXTENDS Integers, Sequences, FiniteSets, TLC

VARIABLES
    out,       \* analyze_defs: the lines printed so far
    s,         \* analyze_defs: the DefsState
    status,    \* analyze_defs: "walking", "done", "panicked" or "idle"
    count,     \* history: the number of nodes dispatched so far
    visited,   \* history: the identifiers of the PortIdentifier nodes that have
               \*   one, in visit order: visited[1] those before the first module
               \*   declaration with an identifier, visited[k + 1] those after
               \*   the k-th and before the next
    carrier,   \* history: the last port declaration visited that carried a
               \*   direction (its dir, inDecl, outDecl), None before the first
    last,      \* history: what the node dispatched last carried (Carried)
    ev,        \* escape_str: the argument v
    ewr,       \* escape_str: the returned string wr
    epc,       \* escape_str: "call", "ret" or "idle"
    lsrc,      \* print_parse_error: the bytes s read from origin_path
    lpos,      \* print_parse_error: origin_pos
    lerr,      \* print_parse_error: the lines written to stderr
    lpc,       \* print_parse_error: "call", "ret" or "idle"
    lidx,      \* history: per diagnostic rendered, the indices beg, pos and
               \*   next_crlf it was rendered with
    opt,       \* run_opt: the flags full_tree, include_whitespace,
               \*   show_macro_defs, separate
    files,     \* run_opt: opt.files, each path with what reading and parsing
               \*   it yields
    idx,       \* run_opt: the number of files the loop has taken
    defines,   \* run_opt: the macro table, the set of its names
    exit_code, \* run_opt: exit_code, the process status once it has ended
    rout,      \* run_opt: the lines printed to stdout
    rerr,      \* run_opt: the lines printed to stderr
    shown,     \* run_opt: the tables show_macro_defs has printed, in order
    rpc,       \* run_opt: "loop", "returned", "panicked" or "idle"
    nout,      \* history: nout[i] = number of stdout lines printed for file i
    nerr,      \* history: nerr[i] = number of stderr lines printed for file i
    given,     \* history: given[i] = the table handed to parse_sv for file i,
               \*   None when the loop skipped the file before parsing
    dinc,      \* print_full_tree: include_whitespace
    dump,      \* print_full_tree: skip, depth and the lines printed so far
    dopen,     \* print_full_tree: the kinds of the nodes entered and not yet
               \*   left, outermost first (the position in the tree)
    dtrail,    \* history: per node entered, its kind, its text, the number of
               \*   nodes open at its entry and whether one of them is a
               \*   WhiteSpace
    dpc        \* print_full_tree: "loop", "ret" or "idle"

vars == <<out, s, status, count, visited, carrier, last, ev, ewr, epc,
          lsrc, lpos, lerr, lpc, lidx,
          opt, files, idx, defines, exit_code, rout, rerr, shown, rpc, nout, nerr,
          given, dinc, dump, dopen, dtrail, dpc>>

defsVars == <<out, s, status, count, visited, carrier, last>>
escVars == <<ev, ewr, epc>>
locVars == <<lsrc, lpos, lerr, lpc, lidx>>
runVars == <<opt, files, idx, defines, exit_code, rout, rerr, shown, rpc, nout, nerr,
            given>>
dumpVars == <<dinc, dump, dopen, dtrail, dpc>>

None == <<>>
Some(x) == <<x>>
IsSome(o) == Len(o) = 1
Unwrap(o) == o[1]

\* ------------------------------------------------------------------------
\* Bounds of the model
\* ------------------------------------------------------------------------
MaxNodes == 3
MaxStrLen == 3
MaxSrcLen == 5
MaxFiles == 3
MaxEnters == 4

\* ------------------------------------------------------------------------
\* escape_str (main.rs 440-503)
\* ------------------------------------------------------------------------
QUOTE == 34
BACKSLASH == 92
DEL == 127

\* two lower-case hexadecimal digits of a byte, as the literals of the table
HexDigit(n) == IF n < 10 THEN 48 + n ELSE 97 + (n - 10)

U00(b) == <<BACKSLASH, 117, 48, 48, HexDigit(b \div 16), HexDigit(b % 16)>>

\* the arms of `match byte` that produce an escape; the `_ => continue` arm
\* is HasEscape(b) = FALSE
HasEscape(b) == b = QUOTE \/ b = BACKSLASH \/ b <= 31 \/ b = DEL

\* variant: the backslash is pushed as it is
Escaped_RawBackslash(b) ==
    CASE b = QUOTE -> <<BACKSLASH, QUOTE>>
      [] b = BACKSLASH -> <<BACKSLASH>>
      [] b = 8 -> <<BACKSLASH, 98>>
      [] b = 9 -> <<BACKSLASH, 116>>
      [] b = 10 -> <<BACKSLASH, 110>>
      [] b = 12 -> <<BACKSLASH, 102>>
      [] b = 13 -> <<BACKSLASH, 114>>
      [] OTHER -> U00(b)

Escaped(b) ==
    CASE b = QUOTE -> <<BACKSLASH, QUOTE>>
      [] b = BACKSLASH -> <<BACKSLASH, BACKSLASH>>
      [] b = 8 -> <<BACKSLASH, 98>>
      [] b = 9 -> <<BACKSLASH, 116>>
      [] b = 10 -> <<BACKSLASH, 110>>
      [] b = 12 -> <<BACKSLASH, 102>>
      [] b = 13 -> <<BACKSLASH, 114>>
      [] OTHER -> U00(b)

\* &v[a..b] with 0-based, end-exclusive indices
Slice(v, a, b) == SubSeq(v, a + 1, b)

\* the body of `for (i, byte) in v.bytes().enumerate()`, from index i on
RECURSIVE EscapeLoop(_, _, _, _)
EscapeLoop(v, i, start, wr) ==
    IF i >= Len(v) THEN [wr |-> wr, start |-> start]
    ELSE IF ~HasEscape(v[i + 1]) THEN EscapeLoop(v, i + 1, start, wr)
    ELSE EscapeLoop(v, i + 1, i + 1,
                    (IF start < i THEN wr \o Slice(v, start, i) ELSE wr)
                        \o Escaped(v[i + 1]))

escape_str(v) ==
    LET r == EscapeLoop(v, 0, 0, <<QUOTE>>)
        wr == IF r.start # Len(v) THEN r.wr \o Slice(v, r.start, Len(v)) ELSE r.wr
    IN wr \o <<QUOTE>>

\* ------------------------------------------------------------------------
\* print_parse_error (main.rs 133-195)
\* ------------------------------------------------------------------------
CHAR_CR == 13
CHAR_LF == 10
SPACE == 32
BAR == 124
COLON == 58
CARET == 94

\* format!("{}", n) of an unsigned number
RECURSIVE Dec(_)
Dec(x) == IF x < 10 THEN <<48 + x>> ELSE Dec(x \div 10) \o <<48 + (x % 10)>>

\* c.repeat(k)
Repeat(c, k) == [i \in 1..k |-> c]

Min(a, b) == IF a <= b THEN a ELSE b

\* variant: the line runs to the end of the input
NextCrLf_EndOfInput(src, i) == Len(src)

\* the inner `while next_crlf < s.len()`
RECURSIVE NextCrLf(_, _)
NextCrLf(src, i) ==
    IF i >= Len(src) THEN i
    ELSE IF src[i + 1] = CHAR_CR \/ src[i + 1] = CHAR_LF THEN i
    ELSE NextCrLf(src, i + 1)

\* variant: the column is the distance from the line feed plus one
Row_FromLineFeedPlusOne(pos, last_lf) ==
    IF IsSome(last_lf) THEN pos - Unwrap(last_lf) + 1 ELSE pos + 1

Row(pos, last_lf) ==
    IF IsSome(last_lf) THEN pos - Unwrap(last_lf) ELSE pos + 1

\* the indices of the body of `if *origin_pos == pos`
Indices(src, pos, last_lf) ==
    [beg |-> IF IsSome(last_lf) THEN Unwrap(last_lf) + 1 ELSE 0,
     pos |-> pos,
     next_crlf |-> NextCrLf(src, pos)]

\* the body of `if *origin_pos == pos`: the four lines printed
Render(path, src, origin_pos, pos, column, last_lf) ==
    LET row == Row(pos, last_lf)
        next_crlf == Indices(src, pos, last_lf).next_crlf
        column_len == Len(Dec(column))
        beg == Indices(src, pos, last_lf).beg
    IN << <<SPACE>> \o path \o <<COLON>> \o Dec(column) \o <<COLON>> \o Dec(row),
          Repeat(SPACE, column_len + 1) \o <<BAR>>,
          Dec(column) \o <<SPACE, BAR>> \o <<SPACE>> \o Slice(src, beg, next_crlf),
          Repeat(SPACE, column_len + 1) \o <<BAR>> \o <<SPACE>>
              \o Repeat(SPACE, pos - beg)
              \o Repeat(CARET, Min(origin_pos + 1, next_crlf) - origin_pos) >>

\* the outer `while pos < s.len()`, from pos on; acc = [err, at] holds the
\* lines printed so far and the indices of each rendering
RECURSIVE LocateLoop(_, _, _, _, _, _, _)
LocateLoop(path, src, origin_pos, pos, column, last_lf, acc) ==
    IF pos >= Len(src) THEN acc
    ELSE LET lf == src[pos + 1] = CHAR_LF
             column1 == IF lf THEN column + 1 ELSE column
             last_lf1 == IF lf THEN Some(pos) ELSE last_lf
             pos1 == pos + 1
         IN LocateLoop(path, src, origin_pos, pos1, column1, last_lf1,
                       IF origin_pos = pos1
                       THEN [err |-> acc.err \o Render(path, src, origin_pos, pos1,
                                                       column1, last_lf1),
                             at |-> Append(acc.at, Indices(src, pos1, last_lf1))]
                       ELSE acc)

print_parse_error(path, src, origin_pos) ==
    LocateLoop(path, src, origin_pos, 0, 1, None, [err |-> <<>>, at |-> <<>>]).err

\* the indices print_parse_error renders with
RenderedAt(src, origin_pos) ==
    LocateLoop(<<>>, src, origin_pos, 0, 1, None, [err |-> <<>>, at |-> <<>>]).at

\* ------------------------------------------------------------------------
\* i32 parsing: str::parse::<i32> (main.rs 287)
\* ------------------------------------------------------------------------
I32Max == 2147483647
I32Min == -I32Max - 1

IsDigit(b) == b >= 48 /\ b <= 57

\* checked accumulation of decimal digits; ok = FALSE on overflow
RECURSIVE ParseDigits(_, _, _)
ParseDigits(t, i, acc) ==
    IF i > Len(t) THEN [ok |-> TRUE, val |-> acc]
    ELSE LET d == t[i] - 48
         IN IF acc > (I32Max - d) \div 10 THEN [ok |-> FALSE, val |-> 0]
            ELSE ParseDigits(t, i + 1, acc * 10 + d)

\* Err for the empty string, a character that is no digit (an underscore
\* of a SystemVerilog unsigned_number included) and a value above i32::MAX
ParseI32(t) ==
    LET digits == IF Len(t) > 0 /\ t[1] = 43 THEN Tail(t) ELSE t
    IN IF digits = <<>> \/ \E i \in 1..Len(digits) : ~IsDigit(digits[i])
       THEN [ok |-> FALSE, val |-> 0]
       ELSE ParseDigits(digits, 1, 0)

\* `+ 1` on an i32 (main.rs 287): at i32::MAX a build with overflow checks
\* (the debug profile) panics, a build without them (the release profile)
\* wraps to i32::MIN
AddOne(x, overflow_checks) ==
    IF x < I32Max THEN [ok |-> TRUE, val |-> x + 1]
    ELSE IF overflow_checks THEN [ok |-> FALSE, val |-> 0]
    ELSE [ok |-> TRUE, val |-> I32Min]

\* ------------------------------------------------------------------------
\* The syntax tree as analyze_defs sees it: the dispatched nodes in source
\* order.  A node carries the results of the lookups the handlers make on it:
\*   id      module identifier            (unwrap_node!, get_identifier, get_str)
\*   inst    instance identifier
\*   dir     text of the PortDirection keyword
\*   inDecl  the node holds an InputDeclaration
\*   outDecl the node holds an OutputDeclaration
\*   range   text of the first UnsignedNumber of the ConstantRange
\*   idents  the PortIdentifier nodes below the node, each with its identifier
\* ------------------------------------------------------------------------
NameM == <<109>>
NameU == <<117>>
NameA == <<97>>
NameB == <<98>>

Txt3 == <<51>>
Txt1_0 == <<49, 95, 48>>
TxtMax == <<50, 49, 52, 55, 52, 56, 51, 54, 52, 55>>

Node(kind, id, inst, dir, inDecl, outDecl, range, idents) ==
    [kind |-> kind, id |-> id, inst |-> inst, dir |-> dir, inDecl |-> inDecl,
     outDecl |-> outDecl, range |-> range, idents |-> idents]

ModuleNodes ==
    {Node("ModuleDeclaration", id, None, None, FALSE, FALSE, None, <<>>) :
        id \in {None, Some(NameM)}}

InstNodes ==
    {Node("ModuleInstantiation", id, inst, None, FALSE, FALSE, None, <<>>) :
        id \in {None, Some(NameM)}, inst \in {None, Some(NameU)}}

\* the PortIdentifier nodes below a port declaration: one whose identifier
\* cannot be located, one that has it, and three of which the second has none
IdentLists ==
    {<<None>>, <<Some(NameA)>>, <<Some(NameA), None, Some(NameB)>>}

\* the direction-carrying parts a port declaration can hold: none, one of
\* them, or a keyword or declaration form together with a later form
DirForms ==
    {<<None, FALSE, FALSE>>, <<Some("input"), FALSE, FALSE>>,
     <<Some("output"), FALSE, FALSE>>, <<Some("inout"), FALSE, FALSE>>, <<None, TRUE, FALSE>>, <<None, FALSE, TRUE>>,
     <<Some("input"), FALSE, TRUE>>, <<Some("output"), TRUE, FALSE>>,
     <<None, TRUE, TRUE>>}

\* port declarations: every direction form without range and with the range
\* [3:0] over every identifier list, and with the bound 1_0 (no i32) and the
\* bound i32::MAX over one identifier
PortNodes ==
    {Node("PortDeclaration", None, None, d[1], d[2], d[3], range, idents) :
        d \in DirForms, range \in {None, Some(Txt3)}, idents \in IdentLists}
    \cup
    {Node("PortDeclaration", None, None, d[1], d[2], d[3], range, <<Some(NameA)>>) :
        d \in DirForms, range \in {Some(Txt1_0), Some(TxtMax)}}

NodeSet == ModuleNodes \cup InstNodes \cup PortNodes

\* ------------------------------------------------------------------------
\* Lines of the report: k names the key, v is the scalar as printed, n the
\* number printed for port_width
\* ------------------------------------------------------------------------
Line(k, v, n) == [k |-> k, v |-> v, n |-> n]

QInput == <<QUOTE, 105, 110, 112, 117, 116, QUOTE>>
QOutput == <<QUOTE, 111, 117, 116, 112, 117, 116, QUOTE>>

\* ------------------------------------------------------------------------
\* analyze_defs and its handlers (main.rs 209-356).  A handler maps the
\* context c = [s, out, panic, checks] to the context after it; checks tells
\* whether the build has integer overflow checks.
\* ------------------------------------------------------------------------
DefsState0 ==
    [first_port |-> FALSE, first_inst |-> FALSE, is_input |-> TRUE, port_width |-> 1]

Ctx(st, o, p, overflow_checks) ==
    [s |-> st, out |-> o, panic |-> p, checks |-> overflow_checks]

Println(c, line) == [c EXCEPT !.out = Append(c.out, line)]

\* variant: a new module starts with the direction and width of a fresh walk
process_module_def_ResetPort(node, c) ==
    IF ~IsSome(node.id) THEN c
    ELSE LET c1 == IF c.s.first_port THEN Println(c, Line("ports_empty", <<>>, 0)) ELSE c
             c2 == IF c.s.first_inst THEN Println(c1, Line("insts_empty", <<>>, 0)) ELSE c1
             c3 == Println(c2, Line("mod_name", escape_str(Unwrap(node.id)), 0))
         IN [c3 EXCEPT !.s = [DefsState0 EXCEPT !.first_port = TRUE, !.first_inst = TRUE]]

\* variant: the instance-list flag is not armed again for the new module
process_module_def_KeepInstFlag(node, c) ==
    IF ~IsSome(node.id) THEN c
    ELSE LET c1 == IF c.s.first_port THEN Println(c, Line("ports_empty", <<>>, 0)) ELSE c
             c2 == IF c.s.first_inst THEN Println(c1, Line("insts_empty", <<>>, 0)) ELSE c1
             c3 == Println(c2, Line("mod_name", escape_str(Unwrap(node.id)), 0))
         IN [c3 EXCEPT !.s.first_port = TRUE]

process_module_def(node, c) ==
    IF ~IsSome(node.id) THEN c
    ELSE LET c1 == IF c.s.first_port THEN Println(c, Line("ports_empty", <<>>, 0)) ELSE c
             c2 == IF c.s.first_inst THEN Println(c1, Line("insts_empty", <<>>, 0)) ELSE c1
             c3 == Println(c2, Line("mod_name", escape_str(Unwrap(node.id)), 0))
         IN [c3 EXCEPT !.s.first_port = TRUE, !.s.first_inst = TRUE]

process_module_inst(node, c) ==
    IF ~IsSome(node.id) THEN c
    ELSE LET c1 == IF c.s.first_inst
                   THEN [Println(c, Line("insts", <<>>, 0)) EXCEPT !.s.first_inst = FALSE]
                   ELSE c
             c2 == Println(c1, Line("inst_mod_name", escape_str(Unwrap(node.id)), 0))
         IN IF ~IsSome(node.inst) THEN c2
            ELSE Println(c2, Line("inst_name", escape_str(Unwrap(node.inst)), 0))

\* variant: the list header is printed before the identifier is looked up
process_port_ident_HeaderFirst(ident, c) ==
    LET c1 == IF c.s.first_port
              THEN [Println(c, Line("ports", <<>>, 0)) EXCEPT !.s.first_port = FALSE]
              ELSE c
    IN IF ~IsSome(ident) THEN c1
       ELSE LET c2 == Println(c1, Line("port_name", escape_str(Unwrap(ident)), 0))
                c3 == Println(c2, Line("port_dir", IF c.s.is_input THEN QInput ELSE QOutput, 0))
            IN Println(c3, Line("port_width", <<>>, c.s.port_width))

process_port_ident(ident, c) ==
    IF ~IsSome(ident) THEN c
    ELSE LET c1 == IF c.s.first_port
                   THEN [Println(c, Line("ports", <<>>, 0)) EXCEPT !.s.first_port = FALSE]
                   ELSE c
             c2 == Println(c1, Line("port_name", escape_str(Unwrap(ident)), 0))
             c3 == Println(c2, Line("port_dir", IF c.s.is_input THEN QInput ELSE QOutput, 0))
         IN Println(c3, Line("port_width", <<>>, c.s.port_width))

\* variant: a PortIdentifier without identifier ends the loop
RECURSIVE PortIdents_StopAtMissing(_, _)
PortIdents_StopAtMissing(idents, c) ==
    IF idents = <<>> \/ ~IsSome(Head(idents)) THEN c
    ELSE PortIdents_StopAtMissing(Tail(idents), process_port_ident(Head(idents), c))

\* `for x in node`: the PortIdentifier nodes below the node, in order
RECURSIVE PortIdents(_, _)
PortIdents(idents, c) ==
    IF idents = <<>> THEN c
    ELSE PortIdents(Tail(idents), process_port_ident(Head(idents), c))

\* variant: the direction keyword leaves the width alone
check_direction1_KeepWidth(node, st) ==
    IF IsSome(node.dir)
    THEN [st EXCEPT !.is_input = (Unwrap(node.dir) = "input")]
    ELSE st

check_direction1(node, st) ==
    IF IsSome(node.dir)
    THEN [st EXCEPT !.is_input = (Unwrap(node.dir) = "input"), !.port_width = 1]
    ELSE st

check_direction2(node, st) ==
    IF node.inDecl THEN [st EXCEPT !.is_input = TRUE, !.port_width = 1] ELSE st

\* variant: the output declaration resets the width only
check_direction3_KeepDir(node, st) ==
    IF node.outDecl THEN [st EXCEPT !.port_width = 1] ELSE st

check_direction3(node, st) ==
    IF node.outDecl THEN [st EXCEPT !.is_input = FALSE, !.port_width = 1] ELSE st

\* variant: the four checks as an if / else-if chain, the first that matches
\* being the only one applied
process_port_def_ElseIf(node, c) ==
    IF IsSome(node.dir)
    THEN PortIdents(node.idents, [c EXCEPT !.s = check_direction1(node, c.s)])
    ELSE IF node.inDecl
    THEN PortIdents(node.idents, [c EXCEPT !.s = check_direction2(node, c.s)])
    ELSE IF node.outDecl
    THEN PortIdents(node.idents, [c EXCEPT !.s = check_direction3(node, c.s)])
    ELSE IF ~IsSome(node.range) THEN PortIdents(node.idents, c)
    ELSE LET p == ParseI32(Unwrap(node.range))
         IN IF ~p.ok THEN [c EXCEPT !.panic = TRUE]
            ELSE LET w == AddOne(p.val, c.checks)
                 IN IF ~w.ok THEN [c EXCEPT !.panic = TRUE]
                    ELSE PortIdents(node.idents, [c EXCEPT !.s.port_width = w.val])

\* parse::<i32>().unwrap() panics on Err, and so does the checked `+ 1`: the
\* walk, and the process, end there
process_port_def(node, c) ==
    LET s3 == check_direction3(node, check_direction2(node, check_direction1(node, c.s)))
    IN IF ~IsSome(node.range) THEN PortIdents(node.idents, [c EXCEPT !.s = s3])
       ELSE LET p == ParseI32(Unwrap(node.range))
            IN IF ~p.ok THEN [c EXCEPT !.s = s3, !.panic = TRUE]
               ELSE LET w == AddOne(p.val, c.checks)
                    IN IF ~w.ok THEN [c EXCEPT !.s = s3, !.panic = TRUE]
                       ELSE PortIdents(node.idents,
                                       [c EXCEPT !.s = [s3 EXCEPT !.port_width = w.val]])

\* the `match node` of analyze_defs
Dispatch(node, c) ==
    CASE node.kind = "ModuleDeclaration" -> process_module_def(node, c)
      [] node.kind = "ModuleInstantiation" -> process_module_inst(node, c)
      [] node.kind = "PortDeclaration" -> process_port_def(node, c)
      [] OTHER -> c

\* the two trailing `if` of analyze_defs
Flush(c) ==
    LET c1 == IF c.s.first_port THEN Println(c, Line("ports_empty", <<>>, 0)) ELSE c
    IN IF c.s.first_inst THEN Println(c1, Line("insts_empty", <<>>, 0)) ELSE c1

\* analyze_defs on a whole tree: the context after the walk
RECURSIVE WalkFrom(_, _)
WalkFrom(tree, c) ==
    IF c.panic THEN c
    ELSE IF tree = <<>> THEN Flush(c)
    ELSE WalkFrom(Tail(tree), Dispatch(Head(tree), c))

analyze_defs(tree, overflow_checks) ==
    WalkFrom(tree, Ctx(DefsState0, <<>>, FALSE, overflow_checks))

\* ------------------------------------------------------------------------
\* print_full_tree (main.rs 359-399) over the event stream of a tree.  An
\* event is Enter or Leave of a node whose kind is "Locate", "WhiteSpace" or
\* the name of another grammar kind; a Locate carries its text and line.
\* ------------------------------------------------------------------------
INITIAL_DEPTH == 3

Event(ev_, kind, text, line) == [ev |-> ev_, kind |-> kind, text |-> text, line |-> line]

Enter(kind) == Event("Enter", kind, <<>>, 0)
Leave(kind) == Event("Leave", kind, <<>>, 0)
EnterLocate(text, line) == Event("Enter", "Locate", text, line)

\* one arm of `match node`; d = [skip, depth, lines]
DumpEvent(e, include_whitespace, d) ==
    CASE e.ev = "Enter" /\ e.kind = "Locate" ->
            [skip |-> d.skip, depth |-> d.depth + 1,
             lines |-> IF ~d.skip
                       THEN d.lines \o <<Line("Token", escape_str(e.text), d.depth),
                                         Line("Line", Dec(e.line), d.depth)>>
                       ELSE d.lines]
      [] e.ev = "Enter" /\ e.kind = "WhiteSpace" ->
            [d EXCEPT !.skip = IF ~include_whitespace THEN TRUE ELSE @]
      [] e.ev = "Leave" /\ e.kind = "WhiteSpace" ->
            [d EXCEPT !.skip = FALSE]
      [] e.ev = "Enter" /\ e.kind \notin {"Locate", "WhiteSpace"} ->
            [skip |-> d.skip, depth |-> d.depth + 1,
             lines |-> IF ~d.skip THEN Append(d.lines, Line(e.kind, <<>>, d.depth))
                       ELSE d.lines]
      [] OTHER -> [d EXCEPT !.depth = @ - 1]

RECURSIVE DumpFrom(_, _, _)
DumpFrom(events, include_whitespace, d) ==
    IF events = <<>> THEN d
    ELSE DumpFrom(Tail(events), include_whitespace,
                  DumpEvent(Head(events), include_whitespace, d))

print_full_tree(events, include_whitespace) ==
    DumpFrom(events, include_whitespace,
             [skip |-> FALSE, depth |-> INITIAL_DEPTH, lines |-> <<>>]).lines

\* ------------------------------------------------------------------------
\* run_opt (main.rs 57-131).  A file of the list carries what the
\* environment and parse_sv yield for it:
\*   tmp     NamedTempFile::new() succeeds
\*   read    read(&path) succeeds
\*   res     "ok", "parse" (Error::Parse with an origin) or "other"
\*   tree    the dispatched nodes of the syntax tree, events its event stream
\*   defs    the macro names the file defines (new_defines adds them)
\*   src     the bytes of the origin file, pos the origin offset
\*   causes  the length of the source() chain of the error
\* ------------------------------------------------------------------------
PANIC_EXIT == 101

FileOf(path, tmp, read, res, tree, events, defs, src, pos, causes) ==
    [path |-> path, tmp |-> tmp, read |-> read, res |-> res, tree |-> tree,
     events |-> events, defs |-> defs, src |-> src, pos |-> pos, causes |-> causes]

TxtBig == <<52, 50, 57, 52, 57, 54, 55, 50, 57, 54>>

ModuleM == Node("ModuleDeclaration", Some(NameM), None, None, FALSE, FALSE, None, <<>>)

\* module m(input [3:0] a); endmodule
TreePorts ==
    <<ModuleM,
      Node("PortDeclaration", None, None, Some("input"), FALSE, FALSE, Some(Txt3),
           <<Some(NameA)>>)>>

\* module m(output [4294967296:0] a); endmodule
TreeBadRange ==
    <<ModuleM,
      Node("PortDeclaration", None, None, Some("output"), FALSE, FALSE, Some(TxtBig),
           <<Some(NameA)>>)>>

SomeEvents ==
    <<Enter("SourceText"), Enter("WhiteSpace"), EnterLocate(<<SPACE>>, 1),
      Leave("Locate"), Leave("WhiteSpace"), EnterLocate(<<109>>, 1), Leave("Locate"),
      Leave("SourceText")>>

PathF == <<102>>

FileKinds ==
    {FileOf(PathF, FALSE, TRUE, "ok", <<>>, <<>>, {}, <<>>, 0, 0),
     FileOf(PathF, TRUE, FALSE, "ok", <<>>, <<>>, {}, <<>>, 0, 0),
     FileOf(PathF, TRUE, TRUE, "parse", <<>>, <<>>, {}, <<97, CHAR_LF, 98>>, 2, 0),
     FileOf(PathF, TRUE, TRUE, "parse", <<>>, <<>>, {}, <<97>>, 0, 0),
     FileOf(PathF, TRUE, TRUE, "other", <<>>, <<>>, {}, <<>>, 0, 1),
     FileOf(PathF, TRUE, TRUE, "ok", <<>>, <<>>, {"FOO"}, <<>>, 0, 0),
     FileOf(PathF, TRUE, TRUE, "ok", TreePorts, SomeEvents, {}, <<>>, 0, 0),
     FileOf(PathF, TRUE, TRUE, "ok", TreeBadRange, SomeEvents, {}, <<>>, 0, 0)}

\* the table built from opt.defines before the loop
CliDefines == {"CLI"}

NewDefines_Given(table, f) == table

\* the table parse_sv returns: the one it was given and the file's macros
NewDefines(table, f) == table \cup f.defs

\* the lines of show_macro_defs: one per defined macro
MacroLines(table) == [i \in 1..Cardinality(table) |-> Line("macro_def", <<>>, 0)]

ErrLine(k, v) == Line(k, v, 0)

\* the Ok arm up to the walk: file_name, the mode's header and the walk's
\* lines; panic when analyze_defs panics
ReportOf(f, o, overflow_checks) ==
    LET head == <<Line("file_name", escape_str(f.path), 0)>>
    IN IF ~o.full_tree
       THEN LET c == analyze_defs(f.tree, overflow_checks)
            IN [lines |-> head \o <<Line("defs", <<>>, 0)>> \o c.out, panic |-> c.panic]
       ELSE [lines |-> head \o <<Line("syntax_tree", <<>>, 0)>>
                        \o print_full_tree(f.events, o.include_whitespace),
             panic |-> FALSE]

\* ------------------------------------------------------------------------
\* Specification of one walk of analyze_defs, node by node
\* ------------------------------------------------------------------------
EscIdle == ev = <<>> /\ ewr = <<>> /\ epc = "idle"

LocIdle == lsrc = <<>> /\ lpos = 0 /\ lerr = <<>> /\ lpc = "idle" /\ lidx = <<>>

Opt(full_tree, include_whitespace, show, separate) ==
    [full_tree |-> full_tree, include_whitespace |-> include_whitespace,
     show_macro_defs |-> show, separate |-> separate]

RunIdle ==
    /\ opt = Opt(FALSE, FALSE, FALSE, FALSE)
    /\ files = <<>>
    /\ idx = 0
    /\ defines = {}
    /\ exit_code = 0
    /\ rout = <<>>
    /\ rerr = <<>>
    /\ shown = <<>>
    /\ rpc = "idle"
    /\ nout = <<>>
    /\ nerr = <<>>
    /\ given = <<>>

\* what the history variables record of a node
CarriesDirection(node) == IsSome(node.dir) \/ node.inDecl \/ node.outDecl

DirAttrs(node) == [dir |-> node.dir, inDecl |-> node.inDecl, outDecl |-> node.outDecl]

RECURSIVE Resolved(_)
Resolved(idents) ==
    IF idents = <<>> THEN <<>>
    ELSE IF IsSome(Head(idents)) THEN <<Unwrap(Head(idents))>> \o Resolved(Tail(idents))
    ELSE Resolved(Tail(idents))

Carried(node) ==
    [kind |-> node.kind, id |-> IsSome(node.id), inst |-> IsSome(node.inst),
     directed |-> CarriesDirection(node), ranged |-> IsSome(node.range),
     range |-> node.range, idents |-> Len(node.idents),
     named |-> Len(Resolved(node.idents))]

NoNode(kind) ==
    [kind |-> kind, id |-> FALSE, inst |-> FALSE, directed |-> FALSE, ranged |-> FALSE,
     range |-> None, idents |-> 0, named |-> 0]

\* print_full_tree is not running
DumpIdle ==
    /\ dinc = FALSE
    /\ dump = [skip |-> FALSE, depth |-> INITIAL_DEPTH, lines |-> <<>>]
    /\ dopen = <<>>
    /\ dtrail = <<>>
    /\ dpc = "idle"

DefsIdle ==
    /\ out = <<>>
    /\ s = DefsState0
    /\ status = "idle"
    /\ count = 0
    /\ visited = <<<<>>>>
    /\ carrier = None
    /\ last = NoNode("idle")

Init ==
    /\ out = <<>>
    /\ s = DefsState0
    /\ status = "walking"
    /\ count = 0
    /\ visited = <<<<>>>>
    /\ carrier = None
    /\ last = NoNode("start")
    /\ EscIdle
    /\ LocIdle
    /\ RunIdle
    /\ DumpIdle

\* what one arm of the match can leave behind: the builds with and without
\* overflow checks differ at most in the outcome of the range's `+ 1`
Outcomes(node) ==
    {[s |-> c.s, out |-> c.out, panic |-> c.panic] :
        c \in {Dispatch(node, Ctx(s, out, FALSE, overflow_checks)) :
                  overflow_checks \in BOOLEAN}}

Visit(node) ==
    /\ status = "walking"
    /\ count < MaxNodes
    /\ \E c \in Outcomes(node) :
          /\ out' = c.out
          /\ s' = c.s
          /\ status' = IF c.panic THEN "panicked" ELSE "walking"
          /\ visited' = CASE c.panic -> visited
                          [] node.kind = "ModuleDeclaration" /\ IsSome(node.id) ->
                                 Append(visited, <<>>)
                          [] node.kind = "PortDeclaration" ->
                                 [visited EXCEPT ![Len(visited)] = @ \o Resolved(node.idents)]
                          [] OTHER -> visited
    /\ count' = count + 1
    /\ carrier' = IF node.kind = "PortDeclaration" /\ CarriesDirection(node)
                  THEN Some(DirAttrs(node)) ELSE carrier
    /\ last' = Carried(node)
    /\ UNCHANGED <<escVars, locVars, runVars, dumpVars>>

VisitModuleDecl == \E node \in ModuleNodes : Visit(node)
VisitModuleInst == \E node \in InstNodes : Visit(node)
VisitPortDecl == \E node \in PortNodes : Visit(node)

EndOfTree ==
    /\ status = "walking"
    /\ LET c == Flush(Ctx(s, out, FALSE, FALSE))
       IN /\ out' = c.out
          /\ s' = c.s
    /\ status' = "done"
    /\ last' = NoNode("end")
    /\ UNCHANGED <<count, visited, carrier>>
    /\ UNCHANGED <<escVars, locVars, runVars, dumpVars>>

Next == VisitModuleDecl \/ VisitModuleInst \/ VisitPortDecl \/ EndOfTree

Spec == Init /\ [][Next]_vars

\* ------------------------------------------------------------------------
\* Specification of one call of escape_str
\* ------------------------------------------------------------------------
\* the bytes the arguments are drawn from: control bytes (the lowest, the
\* five with a mnemonic, 0x0b between them, the highest), the quote, the
\* backslash, 0x7f, ordinary bytes that also end an escape (0, n, u, a) and a
\* byte of a multi-byte sequence
EscBytes == {0, 8, 9, 10, 11, 12, 13, 31, QUOTE, BACKSLASH, DEL, 48, 97, 110, 117, 195}

EscInputs == UNION {[1..len -> EscBytes] : len \in 0..MaxStrLen}

InitEscape ==
    /\ DefsIdle
    /\ LocIdle
    /\ RunIdle
    /\ DumpIdle
    /\ ev \in EscInputs
    /\ ewr = <<>>
    /\ epc = "call"

CallEscape ==
    /\ epc = "call"
    /\ ewr' = escape_str(ev)
    /\ epc' = "ret"
    /\ UNCHANGED <<ev, defsVars, locVars, runVars, dumpVars>>

SpecEscape == InitEscape /\ [][CallEscape]_vars

\* ------------------------------------------------------------------------
\* Specification of one call of print_parse_error
\* ------------------------------------------------------------------------
\* the source of the example: a, LF, b, LF, c, d
SrcExample == <<97, CHAR_LF, 98, CHAR_LF, 99, 100>>

\* a source whose last line is the tenth
SrcTenLines == Repeat(CHAR_LF, 9) \o <<97>>

LocBytes == {CHAR_LF, CHAR_CR, 97}

LocSources == UNION {[1..len -> LocBytes] : len \in 0..MaxSrcLen} \cup {SrcExample, SrcTenLines}

InitLocate ==
    /\ DefsIdle
    /\ EscIdle
    /\ RunIdle
    /\ DumpIdle
    /\ lsrc \in LocSources
    /\ lpos \in 0..Len(lsrc)
    /\ lerr = <<>>
    /\ lidx = <<>>
    /\ lpc = "call"

CallLocate ==
    /\ lpc = "call"
    /\ lerr' = print_parse_error(PathF, lsrc, lpos)
    /\ lidx' = RenderedAt(lsrc, lpos)
    /\ lpc' = "ret"
    /\ UNCHANGED <<lsrc, lpos, defsVars, escVars, runVars, dumpVars>>

SpecLocate == InitLocate /\ [][CallLocate]_vars

\* ------------------------------------------------------------------------
\* Specification of one run of run_opt over a list of files
\* ------------------------------------------------------------------------
FileLists == UNION {[1..len -> FileKinds] : len \in 0..MaxFiles}

InitRun ==
    /\ DefsIdle
    /\ EscIdle
    /\ LocIdle
    /\ DumpIdle
    /\ opt \in {Opt(ft, FALSE, sh, sep) : ft \in BOOLEAN, sh \in BOOLEAN, sep \in BOOLEAN}
    /\ files \in FileLists
    /\ idx = 0
    /\ defines = CliDefines
    /\ exit_code = 0
    /\ rout = <<Line("files", <<>>, 0)>>
    /\ rerr = <<>>
    /\ shown = <<>>
    /\ rpc = "loop"
    /\ nout = <<>>
    /\ nerr = <<>>
    /\ given = <<>>

Taking == rpc = "loop" /\ idx < Len(files)

File == files[idx + 1]

\* what a loop body has printed, for the history variables
Printed(o, e) ==
    /\ nout' = Append(nout, Len(o))
    /\ nerr' = Append(nerr, Len(e))
    /\ rout' = rout \o o
    /\ rerr' = rerr \o e

\* `let Ok(..) = .. else { continue; }` for the scratch file and for read
SkipFile ==
    /\ Taking
    /\ ~File.tmp \/ ~File.read
    /\ idx' = idx + 1
    /\ Printed(<<>>, <<>>)
    /\ given' = Append(given, None)
    /\ UNCHANGED <<opt, files, defines, exit_code, shown, rpc>>
    /\ UNCHANGED <<defsVars, escVars, locVars, dumpVars>>

\* the Ok arm
ReportFile ==
    /\ Taking
    /\ File.tmp /\ File.read /\ File.res = "ok"
    /\ \E overflow_checks \in BOOLEAN :
       LET r == ReportOf(File, opt, overflow_checks)
           table == IF ~opt.separate THEN NewDefines(defines, File) ELSE defines
       IN IF r.panic
          THEN /\ Printed(r.lines, <<ErrLine("panicked", <<>>)>>)
               /\ rpc' = "panicked"
               /\ exit_code' = PANIC_EXIT
               /\ UNCHANGED <<defines, shown>>
          ELSE /\ Printed(r.lines \o (IF opt.show_macro_defs
                                       THEN <<Line("macro_defs", <<>>, 0)>> \o MacroLines(table)
                                       ELSE <<>>),
                          <<>>)
               /\ defines' = table
               /\ shown' = IF opt.show_macro_defs THEN Append(shown, table) ELSE shown
               /\ UNCHANGED <<rpc, exit_code>>
    /\ idx' = idx + 1
    /\ given' = Append(given, Some(defines))
    /\ UNCHANGED <<opt, files>>
    /\ UNCHANGED <<defsVars, escVars, locVars, dumpVars>>

\* the arm Err(Error::Parse(Some((origin_path, origin_pos))))
FailParse ==
    /\ Taking
    /\ File.tmp /\ File.read /\ File.res = "parse"
    /\ LET loc == print_parse_error(File.path, File.src, File.pos)
       IN Printed(<<>>, <<ErrLine("parse failed", File.path)>>
                            \o [i \in 1..Len(loc) |-> ErrLine("location", loc[i])])
    /\ exit_code' = 1
    /\ idx' = idx + 1
    /\ given' = Append(given, Some(defines))
    /\ UNCHANGED <<opt, files, defines, shown, rpc>>
    /\ UNCHANGED <<defsVars, escVars, locVars, dumpVars>>

\* the arm Err(x) of any other error, with its chain of causes
FailOther ==
    /\ Taking
    /\ File.tmp /\ File.read /\ File.res = "other"
    /\ Printed(<<>>, <<ErrLine("parse failed", File.path)>>
                         \o [i \in 1..File.causes |-> ErrLine("Caused by", <<>>)])
    /\ exit_code' = 1
    /\ idx' = idx + 1
    /\ given' = Append(given, Some(defines))
    /\ UNCHANGED <<opt, files, defines, shown, rpc>>
    /\ UNCHANGED <<defsVars, escVars, locVars, dumpVars>>

\* the loop is over: run_opt returns exit_code
Return ==
    /\ rpc = "loop"
    /\ idx = Len(files)
    /\ rpc' = "returned"
    /\ UNCHANGED <<opt, files, idx, defines, exit_code, rout, rerr, shown, nout, nerr, given>>
    /\ UNCHANGED <<defsVars, escVars, locVars, dumpVars>>

NextRun == SkipFile \/ ReportFile \/ FailParse \/ FailOther \/ Return

SpecRun == InitRun /\ [][NextRun]_vars

\* ------------------------------------------------------------------------
\* Specification of one run of print_full_tree, event by event.  The events
\* are those of a tree: one root, a grammar node; a Locate has no child; any
\* other node, a WhiteSpace included, may hold Locates, WhiteSpaces and
\* grammar nodes.
\* ------------------------------------------------------------------------
TokenText == <<109>>

Trail(kind, text) ==
    [kind |-> kind, text |-> text, open |-> Len(dopen),
     inws |-> \E i \in 1..Len(dopen) : dopen[i] = "WhiteSpace"]

InitDump ==
    /\ DefsIdle
    /\ EscIdle
    /\ LocIdle
    /\ RunIdle
    /\ dinc \in BOOLEAN
    /\ dump = [skip |-> FALSE, depth |-> INITIAL_DEPTH, lines |-> <<>>]
    /\ dopen = <<>>
    /\ dtrail = <<>>
    /\ dpc = "loop"

\* the iterator has a node to enter: the root first, then children of the
\* innermost open node unless that is a Locate
CanEnter ==
    /\ dpc = "loop"
    /\ Len(dtrail) < MaxEnters
    /\ dopen = <<>> => dtrail = <<>>
    /\ dopen # <<>> => dopen[Len(dopen)] # "Locate"

EnterEvent(e) ==
    /\ CanEnter
    /\ dump' = DumpEvent(e, dinc, dump)
    /\ dopen' = Append(dopen, e.kind)
    /\ dtrail' = Append(dtrail, Trail(e.kind, e.text))
    /\ UNCHANGED <<dinc, dpc>>
    /\ UNCHANGED <<defsVars, escVars, locVars, runVars>>

\* NodeEvent::Enter(x) of a grammar node
EnterNode == EnterEvent(Enter("Node"))

\* NodeEvent::Enter(RefNode::WhiteSpace(_))
EnterWhiteSpace == dopen # <<>> /\ EnterEvent(Enter("WhiteSpace"))

\* NodeEvent::Enter(RefNode::Locate(locate))
EnterToken == dopen # <<>> /\ EnterEvent(EnterLocate(TokenText, 1))

\* NodeEvent::Leave of the innermost open node
LeaveNode ==
    /\ dpc = "loop"
    /\ dopen # <<>>
    /\ dump' = DumpEvent(Leave(dopen[Len(dopen)]), dinc, dump)
    /\ dopen' = SubSeq(dopen, 1, Len(dopen) - 1)
    /\ UNCHANGED <<dinc, dtrail, dpc>>
    /\ UNCHANGED <<defsVars, escVars, locVars, runVars>>

\* the iterator is exhausted: print_full_tree returns
EndOfEvents ==
    /\ dpc = "loop"
    /\ dopen = <<>> /\ dtrail # <<>>
    /\ dpc' = "ret"
    /\ UNCHANGED <<dinc, dump, dopen, dtrail>>
    /\ UNCHANGED <<defsVars, escVars, locVars, runVars>>

NextDump == EnterNode \/ EnterWhiteSpace \/ EnterToken \/ LeaveNode \/ EndOfEvents

SpecDump == InitDump /\ [][NextDump]_vars

\* ------------------------------------------------------------------------
\* Reading the report of one walk
\* ------------------------------------------------------------------------
ModIdx == {i \in 1..Len(out) : out[i].k = "mod_name"}

\* the last line of the module whose mod_name is line i
SegEnd(i) ==
    IF \E j \in ModIdx : j > i
    THEN (CHOOSE j \in ModIdx : j > i /\ \A l \in ModIdx : l > i => j <= l) - 1
    ELSE Len(out)

\* the module of line i is closed by a later mod_name or by the end of the walk
Closed(i) == (\E j \in ModIdx : j > i) \/ status = "done"

CountIn(i, K) == Cardinality({j \in (i + 1)..SegEnd(i) : out[j].k \in K})

\* the k-th segment of the report: k = 1 before the first mod_name
SegStart(k) ==
    IF k = 1 THEN 0
    ELSE CHOOSE i \in ModIdx : Cardinality({j \in ModIdx : j <= i}) = k - 1

IsPortName(l) == l.k = "port_name"

PortNames(k) ==
    LET from == SegStart(k)
        to == IF from = 0 THEN (IF ModIdx = {} THEN Len(out) ELSE SegStart(2) - 1)
              ELSE SegEnd(from)
        names == SelectSeq(SubSeq(out, from + 1, to), IsPortName)
    IN [i \in 1..Len(names) |-> names[i].v]

\* the lines the step has printed
NewLines == (Len(out) + 1)..Len(out')

IsVisit == count' = count + 1

\* C1: every mod_name is followed, before the next mod_name or the end of the
\* walk, by exactly one ports key and exactly one insts key; the key has the
\* empty form exactly when the module has no port entry (no instance entry);
\* while the module is open no key is printed twice.
C1_OneListKeyPerModule ==
    \A i \in ModIdx :
        /\ CountIn(i, {"ports", "ports_empty"}) <= 1
        /\ CountIn(i, {"insts", "insts_empty"}) <= 1
        /\ Closed(i) =>
            /\ CountIn(i, {"ports", "ports_empty"}) = 1
            /\ CountIn(i, {"insts", "insts_empty"}) = 1
            /\ (CountIn(i, {"ports_empty"}) = 1) <=> (CountIn(i, {"port_name"}) = 0)
            /\ (CountIn(i, {"insts_empty"}) = 1) <=> (CountIn(i, {"inst_mod_name"}) = 0)

\* a finished walk with a module that has a port list and no instance, then
\* a module that has neither
C1_Witness ==
    /\ status = "done"
    /\ \E i, j \in ModIdx :
        /\ i < j
        /\ CountIn(i, {"ports"}) = 1 /\ CountIn(i, {"insts_empty"}) = 1
        /\ CountIn(j, {"ports_empty"}) = 1 /\ CountIn(j, {"insts_empty"}) = 1

C3_Original ==
    [][(IsVisit /\ last'.kind = "PortDeclaration" /\ ~last'.ranged)
        => \A i \in NewLines : out'[i].k = "port_width" => out'[i].n = 1]_vars

\* C3 amended: a port entry from a declaration without constant range has
\* width 1 when the declaration carries a direction keyword or an input or
\* output declaration form, and otherwise the width the declarations before
\* it have left (1 at the start of the walk).
C3_WidthWithoutRange ==
    [][(IsVisit /\ last'.kind = "PortDeclaration" /\ ~last'.ranged)
        => \A i \in NewLines : out'[i].k = "port_width" =>
               out'[i].n = IF last'.directed THEN 1 ELSE s.port_width]_vars

\* after an entry of width 4, a declaration with a direction and no range
\* has printed an entry of width 1
C3_Witness ==
    /\ last.kind = "PortDeclaration" /\ last.directed /\ ~last.ranged
    /\ count = 2
    /\ Len(out) = 6
    /\ out[3].k = "port_width" /\ out[3].n = 4
    /\ out[6].k = "port_width" /\ out[6].n = 1
    /\ out[1].v = out[4].v

\* the direction a declaration resolves to: the output form, else the input
\* form, else the keyword
ResolvedDir(a) ==
    IF a.outDecl THEN QOutput
    ELSE IF a.inDecl THEN QInput
    ELSE IF Unwrap(a.dir) = "input" THEN QInput ELSE QOutput

\* C4: a port from a declaration with no direction keyword and no input or
\* output declaration form is reported with the direction resolved by the
\* most recent earlier declaration that carried one, and with input if there
\* is none.
C4_DirectionInherited ==
    [][(IsVisit /\ last'.kind = "PortDeclaration" /\ ~last'.directed)
        => \A i \in NewLines : out'[i].k = "port_dir" =>
               out'[i].v = IF carrier = None THEN QInput
                           ELSE ResolvedDir(Unwrap(carrier))]_vars

\* an output port, then a module declaration, then a port without direction
\* reported as output
C4_Witness ==
    /\ last.kind = "PortDeclaration" /\ ~last.directed
    /\ count = 3
    /\ carrier # None /\ ResolvedDir(Unwrap(carrier)) = QOutput
    /\ Len(out) = 8
    /\ out[2].k = "port_dir" /\ out[2].v = QOutput
    /\ out[4].k = "mod_name"
    /\ out[7].k = "port_dir" /\ out[7].v = QOutput

\* ------------------------------------------------------------------------
\* The quoted-scalar unescape the report's readers apply: the enclosing
\* quotes are stripped, \" \\ \n \t \r \b \f and \uXXXX are decoded, a code
\* point above 0x7f to its two-byte encoding; a bare quote, an unknown or
\* truncated escape is an error
\* ------------------------------------------------------------------------
HexVal(b) ==
    IF b >= 48 /\ b <= 57 THEN b - 48
    ELSE IF b >= 97 /\ b <= 102 THEN b - 87
    ELSE IF b >= 65 /\ b <= 70 THEN b - 55
    ELSE -1

UnescapeError == [ok |-> FALSE, val |-> <<>>]

RECURSIVE UnescapeFrom(_, _, _)
UnescapeFrom(q, i, acc) ==
    IF i > Len(q) THEN [ok |-> TRUE, val |-> acc]
    ELSE IF q[i] = QUOTE THEN UnescapeError
    ELSE IF q[i] # BACKSLASH THEN UnescapeFrom(q, i + 1, Append(acc, q[i]))
    ELSE IF i + 1 > Len(q) THEN UnescapeError
    ELSE LET e == q[i + 1]
         IN CASE e = QUOTE -> UnescapeFrom(q, i + 2, Append(acc, QUOTE))
              [] e = BACKSLASH -> UnescapeFrom(q, i + 2, Append(acc, BACKSLASH))
              [] e = 110 -> UnescapeFrom(q, i + 2, Append(acc, 10))
              [] e = 116 -> UnescapeFrom(q, i + 2, Append(acc, 9))
              [] e = 114 -> UnescapeFrom(q, i + 2, Append(acc, 13))
              [] e = 98 -> UnescapeFrom(q, i + 2, Append(acc, 8))
              [] e = 102 -> UnescapeFrom(q, i + 2, Append(acc, 12))
              [] e = 117 ->
                    IF i + 5 > Len(q) \/ \E j \in (i + 2)..(i + 5) : HexVal(q[j]) < 0
                    THEN UnescapeError
                    ELSE LET cp == 4096 * HexVal(q[i + 2]) + 256 * HexVal(q[i + 3])
                                   + 16 * HexVal(q[i + 4]) + HexVal(q[i + 5])
                         IN IF cp < 128 THEN UnescapeFrom(q, i + 6, Append(acc, cp))
                            ELSE IF cp < 2048
                            THEN UnescapeFrom(q, i + 6,
                                     acc \o <<192 + (cp \div 64), 128 + (cp % 64)>>)
                            ELSE UnescapeError
              [] OTHER -> UnescapeError

Unescape(w) ==
    IF Len(w) < 2 \/ w[1] # QUOTE \/ w[Len(w)] # QUOTE THEN UnescapeError
    ELSE UnescapeFrom(SubSeq(w, 2, Len(w) - 1), 1, <<>>)

\* C5: unescaping what escape_str returns yields exactly the argument, for
\* every byte string over quotes, backslashes, control bytes, 0x7f and
\* ordinary bytes.
C5_EscapeRoundTrip ==
    epc = "ret" => Unescape(ewr) = [ok |-> TRUE, val |-> ev]

\* a backslash, the letter n and a line feed: the escaped form reads \\n\n
C5_Witness ==
    /\ epc = "ret"
    /\ ev = <<BACKSLASH, 110, 10>>
    /\ ewr = <<QUOTE, BACKSLASH, BACKSLASH, 110, BACKSLASH, 110, QUOTE>>

\* ------------------------------------------------------------------------
\* Reading a source as the diagnostic describes it, for an offset off
\* ------------------------------------------------------------------------
\* the 0-based offsets before off that hold a line feed
LineFeedsBefore(src, off) == {i \in 0..(off - 1) : src[i + 1] = CHAR_LF}

LineOf(src, off) == 1 + Cardinality(LineFeedsBefore(src, off))

\* the offset just after the previous line feed
LineStart(src, off) ==
    IF LineFeedsBefore(src, off) = {} THEN 0
    ELSE 1 + CHOOSE i \in LineFeedsBefore(src, off) :
                 \A j \in LineFeedsBefore(src, off) : j <= i

ColumnOf(src, off) == off - LineStart(src, off) + 1

\* the offset of the next CR or LF at or after off, else the source length
LineEnd(src, off) ==
    LET stops == {i \in off..(Len(src) - 1) : src[i + 1] \in {CHAR_CR, CHAR_LF}}
    IN IF stops = {} THEN Len(src)
       ELSE CHOOSE i \in stops : \A j \in stops : i <= j

\* the four lines of a rendered diagnostic, read off the source: line is 1
\* plus the line feeds strictly before the offset, column the 1-based
\* distance from the line start, the text runs to the next CR/LF or the end
\* of input, and the caret string starts under the byte at the offset
DiagnosticReads(caret) ==
    LET line == Dec(LineOf(lsrc, lpos))
        col == Dec(ColumnOf(lsrc, lpos))
        from == LineStart(lsrc, lpos)
        to == LineEnd(lsrc, lpos)
        text == SubSeq(lsrc, from + 1, to)
        gutter == Repeat(SPACE, Len(line) + 1) \o <<BAR>>
        \* the column of the byte at the offset in the source line
        under == Len(line \o <<SPACE, BAR, SPACE>>) + (lpos - from) + 1
    IN /\ Len(lerr) = 4
       /\ lerr[1] = <<SPACE>> \o PathF \o <<COLON>> \o line \o <<COLON>> \o col
       /\ lerr[2] = gutter
       /\ lerr[3] = line \o <<SPACE, BAR, SPACE>> \o text
       /\ SubSeq(lerr[4], 1, under - 1) = gutter \o Repeat(SPACE, under - 1 - Len(gutter))
       /\ SubSeq(lerr[4], under, Len(lerr[4])) = caret

\* C6 as stated: every rendered diagnostic has the line and column of the
\* offset, the text of its line, and a caret under the byte at the offset.
C6_Original ==
    (lpc = "ret" /\ lerr # <<>>) => DiagnosticReads(<<CARET>>)

\* C6: every rendered diagnostic has the line and column of the offset and
\* the text of its line; the caret line has one caret under the byte at the
\* offset when that byte is before the end of the line, and no caret when the
\* offset is on a CR/LF byte or at the end of input.
C6_DiagnosticContent ==
    (lpc = "ret" /\ lerr # <<>>) =>
        DiagnosticReads(IF lpos < LineEnd(lsrc, lpos) THEN <<CARET>> ELSE <<>>)

\* the example: a LF b LF c d with the offset of d gives line 3, column 2,
\* the line text cd and the caret under d
C6_Witness ==
    /\ lpc = "ret"
    /\ lsrc = SrcExample
    /\ lpos = 5
    /\ lerr = << <<SPACE>> \o PathF \o <<COLON, 51, COLON, 50>>,
                 <<SPACE, SPACE, BAR>>,
                 <<51, SPACE, BAR, SPACE, 99, 100>>,
                 <<SPACE, SPACE, BAR, SPACE, SPACE, CARET>> >>

\* C7: exactly one four-line diagnostic is rendered for every offset from 0
\* to the source length.
C7_OneDiagnosticPerOffset ==
    lpc = "ret" => Len(lerr) = 4

\* ------------------------------------------------------------------------
\* Reading a run: which files of the list fail
\* ------------------------------------------------------------------------
\* a port declaration whose range bound is no i32
BadRange(node) ==
    /\ node.kind = "PortDeclaration"
    /\ IsSome(node.range)
    /\ ~ParseI32(Unwrap(node.range)).ok

\* the file cannot be read, does not parse, or its extraction meets a range
\* bound that is no integer
FileFails(f, o) ==
    \/ ~f.tmp
    \/ ~f.read
    \/ f.res # "ok"
    \/ ~o.full_tree /\ \E i \in 1..Len(f.tree) : BadRange(f.tree[i])

Ended == rpc \in {"returned", "panicked"}

\* C8: whatever the outcome of each file, every file of the list is attempted
\* before the run ends.
C8_EveryFileAttempted ==
    Ended => idx = Len(files)

\* C9: after the run the status is nonzero exactly when a file has failed,
\* and every failed file has a diagnostic on stderr and no line on stdout.
C9_StatusAndDiagnostics ==
    Ended =>
        /\ (exit_code # 0) <=> (\E i \in 1..Len(files) : FileFails(files[i], opt))
        /\ \A i \in 1..idx : FileFails(files[i], opt) => nerr[i] > 0 /\ nout[i] = 0

\* C10: no report line is printed for a file whose processing fails, a file
\* whose extraction fails on a range bound included.
C10_NoReportForFailedFile ==
    \A i \in 1..Len(nout) : FileFails(files[i], opt) => nout[i] = 0

\* ------------------------------------------------------------------------
\* Reading a run: the macro tables
\* ------------------------------------------------------------------------
\* parse_sv was called for the file and returned Ok
ParseOk(f) == f.tmp /\ f.read /\ f.res = "ok"

\* the most recent file before file i whose parse succeeded, 0 if none
LastOk(i) ==
    LET oks == {j \in 1..(i - 1) : ParseOk(files[j])}
    IN IF oks = {} THEN 0 ELSE CHOOSE j \in oks : \A k \in oks : k <= j

\* the number of files up to file i whose parse succeeded
OksUpTo(i) == Cardinality({j \in 1..i : ParseOk(files[j])})

\* C11: without isolation the table given to each parse is the one returned
\* by the most recent earlier successful parse (that parse's table and the
\* macros of its file), the command-line table if there is none, and the
\* snapshot of a file holds the macros of every earlier successful file; with
\* isolation every parse is given, and every snapshot shows, the command-line
\* table.  Files that fail leave the table as it was.
C11_MacroCarryOver ==
    /\ \A i \in 1..Len(given) :
          IsSome(given[i]) =>
              Unwrap(given[i]) =
                  IF opt.separate \/ LastOk(i) = 0 THEN CliDefines
                  ELSE Unwrap(given[LastOk(i)]) \cup files[LastOk(i)].defs
    /\ opt.separate => \A k \in 1..Len(shown) : shown[k] = CliDefines
    /\ (~opt.separate /\ opt.show_macro_defs) =>
          \A i \in 1..Len(given) :
              (ParseOk(files[i]) /\ OksUpTo(i) <= Len(shown)) =>
                  \A j \in 1..i : ParseOk(files[j]) => files[j].defs \subseteq shown[OksUpTo(i)]

\* file A defines FOO, the second file fails to parse, and the snapshot of
\* the third file shows FOO
C11_Witness ==
    /\ rpc = "returned"
    /\ ~opt.separate /\ opt.show_macro_defs
    /\ Len(files) = 3
    /\ ParseOk(files[1]) /\ files[1].defs = {"FOO"}
    /\ files[2].res = "parse" /\ files[2].tmp /\ files[2].read
    /\ ParseOk(files[3]) /\ files[3].defs = {}
    /\ given[3] = Some(CliDefines \cup {"FOO"})
    /\ Len(shown) = 2 /\ "FOO" \in shown[2]

\* ------------------------------------------------------------------------
\* Reading the report of one walk: instances, list membership, frames
\* ------------------------------------------------------------------------
\* C12: a step on a module-instantiation node prints one complete instance
\* entry (the mod_name line, then the inst_name line) when both identifiers
\* are there, and prints nothing at all when one of them is missing.
C12_InstEntryAllOrNothing ==
    [][(IsVisit /\ last'.kind = "ModuleInstantiation") =>
          IF last'.id /\ last'.inst
          THEN /\ Len(out') >= Len(out) + 2
               /\ out'[Len(out') - 1].k = "inst_mod_name"
               /\ out'[Len(out')].k = "inst_name"
          ELSE out' = out]_vars

\* ------------------------------------------------------------------------
\* Reading a dump
\* ------------------------------------------------------------------------
\* the line that names a token or a node (a token has a second line, Line)
IsSubject(l) == l.k # "Line"

Subjects == SelectSeq(dump.lines, IsSubject)

\* the nodes entered so far that are neither a WhiteSpace nor below one
OutsideWhiteSpace(t) == t.kind # "WhiteSpace" /\ ~t.inws

\* what the dump shows of an entered node, the indentation aside
Shown(t) ==
    IF t.kind = "Locate" THEN [k |-> "Token", v |-> escape_str(t.text)]
    ELSE [k |-> t.kind, v |-> <<>>]

\* C13: without whitespace inclusion the dump names, once each and in
\* traversal order, exactly the tokens and nodes that are not inside a
\* whitespace subtree, whatever the nesting of whitespace nodes.
C13_WhiteSpaceSuppressed ==
    ~dinc =>
        LET want == SelectSeq(dtrail, OutsideWhiteSpace)
        IN /\ Len(Subjects) = Len(want)
           /\ \A i \in 1..Len(want) :
                 [k |-> Subjects[i].k, v |-> Subjects[i].v] = Shown(want[i])

\* the entered nodes a dump with whitespace inclusion names: all but the
\* WhiteSpace nodes themselves, for which no arm prints a line
Named(t) == t.kind # "WhiteSpace"

\* C16: the depth counter is the initial offset plus the number of nodes
\* entered and not yet left, WhiteSpace nodes included, and every line of a
\* dump that suppresses nothing is indented to the initial offset plus the
\* number of nodes open at the entry of its node.
C16_DepthCountsOpenNodes ==
    /\ dump.depth = INITIAL_DEPTH + Len(dopen)
    /\ dinc =>
          LET named == SelectSeq(dtrail, Named)
          IN /\ Len(Subjects) = Len(named)
             /\ \A i \in 1..Len(named) : Subjects[i].n = INITIAL_DEPTH + named[i].open

\* C14: every port entry of the report has a width of at least 1.
C14_WidthAtLeastOne ==
    \A i \in 1..Len(out) : out[i].k = "port_width" => out[i].n >= 1

\* the i32 the range bound of the node dispatched by the step stands for
BoundOf(l) == ParseI32(Unwrap(l.range)).val

\* C15: a port declaration leaves the state its four checks give when applied
\* one after the other, each overriding the ones before: the direction is
\* that of the output form, else of the input form, else of the keyword
\* (input for `input`, output for any other), else the one carried over; the
\* width is the bound plus one (as an i32) if there is a range, whatever the
\* direction checks did, else 1 if a direction check matched, else the one
\* carried over.
C15_ChecksInOrder ==
    [][(IsVisit /\ last'.kind = "PortDeclaration" /\ status' = "walking") =>
          /\ s'.is_input =
                IF ~last'.directed THEN s.is_input
                ELSE LET a == Unwrap(carrier')
                     IN IF a.outDecl THEN FALSE
                        ELSE IF a.inDecl THEN TRUE
                        ELSE Unwrap(a.dir) = "input"
          /\ s'.port_width =
                IF last'.ranged
                THEN (IF BoundOf(last') < I32Max THEN BoundOf(last') + 1 ELSE I32Min)
                ELSE IF last'.directed THEN 1 ELSE s.port_width]_vars

\* a declaration with the keyword input, the output form and the range
\* [3:0] has been reported as an output of width 4
C15_Witness ==
    /\ last.kind = "PortDeclaration" /\ last.range = Some(Txt3)
    /\ carrier = Some([dir |-> Some("input"), inDecl |-> FALSE, outDecl |-> TRUE])
    /\ count = 1
    /\ s.is_input = FALSE /\ s.port_width = 4
    /\ Len(out) = 3
    /\ out[2].v = QOutput /\ out[3].n = 4

\* the port_name lines the step has printed
NewPortNames == {i \in NewLines : out'[i].k = "port_name"}

\* C17: a module declaration whose identifier cannot be located prints
\* nothing and leaves the whole DefsState as it was, and so does a
\* PortIdentifier whose identifier cannot be located: a declaration prints
\* one entry per PortIdentifier that has one, and one that sets neither
\* direction nor width and has none leaves output and state untouched.  The
\* walk goes on in each case.
C17_MissingIdentifierIsNoOp ==
    [][IsVisit =>
          /\ (last'.kind = "ModuleDeclaration" /\ ~last'.id) =>
                (out' = out /\ s' = s /\ status' = "walking")
          /\ process_port_ident(None, Ctx(s, out, FALSE, FALSE)) = Ctx(s, out, FALSE, FALSE)
          /\ (last'.kind = "PortDeclaration" /\ status' = "walking") =>
                Cardinality(NewPortNames) = last'.named
          /\ (last'.kind = "PortDeclaration" /\ last'.named = 0
                /\ ~last'.directed /\ ~last'.ranged) =>
                (out' = out /\ s' = s /\ status' = "walking")]_vars

\* after a module declaration, a port declaration whose only PortIdentifier
\* has no identifier has been visited: the port list is still to be opened
C17_Witness ==
    /\ count = 2
    /\ last.kind = "PortDeclaration" /\ last.idents = 1 /\ last.named = 0
    /\ ~last.directed /\ ~last.ranged
    /\ status = "walking"
    /\ s.first_port /\ s.first_inst
    /\ Len(out) = 1 /\ out[1].k = "mod_name"

\* the key lines of a module entry
KeyLines == {"mod_name", "ports", "ports_empty", "insts", "insts_empty"}

\* the key line nearest before line i, 0 if there is none
KeyBefore(i) ==
    LET keys == {j \in 1..(i - 1) : out[j].k \in KeyLines}
    IN IF keys = {} THEN 0 ELSE CHOOSE j \in keys : \A l \in keys : l <= j

\* C18: the key line nearest before a port entry is a ports header and the
\* key line nearest before an instance entry is an insts header, for every
\* order of module declarations, port declarations and instantiations.
C18_EntriesInsideTheirList ==
    \A i \in 1..Len(out) :
        /\ out[i].k = "port_name" =>
              (KeyBefore(i) # 0 /\ out[KeyBefore(i)].k = "ports")
        /\ out[i].k = "inst_mod_name" =>
              (KeyBefore(i) # 0 /\ out[KeyBefore(i)].k = "insts")

\* a tree of one port declaration that sets neither direction nor width
TreeBarePort ==
    <<Node("PortDeclaration", None, None, None, FALSE, FALSE, None, <<Some(NameA)>>)>>

\* what a new call of analyze_defs prints for it
FreshWalk == analyze_defs(TreeBarePort, FALSE).out

Carets(line) == Cardinality({j \in 1..Len(line) : line[j] = CARET})

\* C20: a diagnostic is rendered with lineStart <= offset <= lineEnd <=
\* source length, so the slice and both subtractions are in range, and its
\* caret string has length min(offset + 1, lineEnd) - offset: 0 when the offset
\* is on a CR/LF byte or at the end of the input, 1 otherwise.
C20_IndicesInRange ==
    lpc = "ret" =>
        /\ Len(lerr) = 4 * Len(lidx)
        /\ \A i \in 1..Len(lidx) :
              LET x == lidx[i]
                  caret == Min(lpos + 1, x.next_crlf) - lpos
                  stop == lpos = Len(lsrc) \/ lsrc[lpos + 1] \in {CHAR_CR, CHAR_LF}
              IN /\ 0 <= x.beg /\ x.beg <= x.pos /\ x.pos = lpos
                 /\ x.pos <= x.next_crlf /\ x.next_crlf <= Len(lsrc)
                 /\ caret = (IF stop THEN 0 ELSE 1)
                 /\ Carets(lerr[4 * i]) = caret

\* a LF b LF c d with the offset of the first line feed: the line a, rendered
\* with beg 0, pos 1 and next_crlf 1, and no caret
C20_Witness ==
    /\ lpc = "ret"
    /\ lsrc = SrcExample /\ lpos = 1
    /\ lidx = <<[beg |-> 0, pos |-> 1, next_crlf |-> 1]>>
    /\ Len(lerr) = 4 /\ Carets(lerr[4]) = 0

====
